---------------------------- MODULE Spec2Model ----------------------------
(***************************************************************************)
(* Model of the Synth driver core (src/synth.c, src/synth.h).              *)
(*                                                                         *)
(* The program state is the two file-scope objects SynthIO (the registered *)
(* table of backend function pointers) and SynthCtx (the runtime context). *)
(* Every public function SYNTH_xxx is one action.  A function pointer is   *)
(* modelled by the identity of the backend that owns the function, NULL    *)
(* when the slot is empty; what a backend callback returns is chosen       *)
(* nondeterministically.                                                   *)
(*                                                                         *)
(* Besides the program state, the model records what the last call did:    *)
(* op (which function), arg (its arguments), ret (its return value), out   *)
(* (what it stored through its output pointer) and calls (the backend      *)
(* callbacks it invoked, in order).  lastReg and prevReg remember the      *)
(* arguments of the last two successful registrations.                     *)
(*                                                                         *)
(* initInvoked is a history variable, recorded by SpecHist only: the       *)
(* backends whose init callback has been invoked so far.  pc and loc are   *)
(* used by SpecConc only, where two callers run the functions step by      *)
(* step: pc is the place of each caller in the function it runs, loc its   *)
(* local variables.                                                        *)
(***************************************************************************)
EXTENDS Integers, Sequences, FiniteSets

VARIABLES SynthIO, SynthCtx, op, arg, ret, out, calls, lastReg, prevReg,
          initInvoked, pc, loc

vars == <<SynthIO, SynthCtx, op, arg, ret, out, calls, lastReg, prevReg,
          initInvoked, pc, loc>>

-----------------------------------------------------------------------------
(* Constants of synth.h and of the C environment *)

NULL == 0

SYNTH_STATUS_OK == 0
SYNTH_STATUS_ERROR == 1
SYNTH_STATUS_BUSY == 2
SYNTH_STATUS_TIMEOUT == 3

SYNTH_DEFAULT_VOLUME == 75

\* sizeof(int16_t)
SizeofInt16 == 2

\* largest value of a uint8_t
U8Max == (2 ^ 8) - 1

-----------------------------------------------------------------------------
(* uint32_t values that take part in arithmetic (the sample count and the  *)
(* byte size of SYNTH_PlayBuffer) are kept as two 16-bit limbs <<hi, lo>>, *)
(* value hi * 2^16 + lo, so that the full 32-bit range is covered.         *)

Limb == 2 ^ 16

U32(hi, lo) == <<hi, lo>>

\* The exact product of the 32-bit value u and a small factor k, as three
\* limbs <<carry, hi, lo>>.
MulExact(u, k) ==
    LET lo == u[2] * k
        hi == u[1] * k + (lo \div Limb)
    IN  <<hi \div Limb, hi % Limb, lo % Limb>>

\* Conversion of a three-limb value to uint32_t: the value modulo 2^32.
ToU32(x) == <<x[2], x[3]>>

\* A uint32_t value seen as a three-limb value.
Widen(u) == <<0, u[1], u[2]>>

-----------------------------------------------------------------------------
(* Bounds and input sets *)

\* Number of distinct backends (boards) that register a table.
NumBackends == 2

Backends == 1 .. NumBackends

Slots == {"Init", "DeInit", "Transmit", "SetSampleRate", "GetSampleRate", "Mute"}

\* The slots a registered table populates: all of them, none of them, all
\* but one, or exactly one.
Shapes ==
    {Slots, {}} \cup {Slots \ {s} : s \in Slots} \cup {{s} : s \in Slots}

\* Inputs of the general specification.
Inputs ==
    [ shapes   |-> Shapes,
      backends |-> Backends,
      rates    |-> {44100, 48000},
      channels |-> {1, 2},
      volumes  |-> {0, 50, 100, 101, U8Max},
      enables  |-> {0, 1},
      lengths  |-> {U32(0, 0), U32(0, 256), U32(32767, 65535),
                    U32(32768, 0), U32(65535, 65535)},
      results  |-> {0, 1, 2, 3},
      history  |-> FALSE ]

\* The two concurrent callers of SpecConc.
Callers == {"A", "B"}

\* Inputs of the specification that covers every uint8_t volume argument.
InputsU8 ==
    [ shapes   |-> {Slots, {}},
      backends |-> Backends,
      rates    |-> {48000},
      channels |-> {2},
      volumes  |-> 0 .. U8Max,
      enables  |-> {0, 1},
      lengths  |-> {U32(0, 256)},
      results  |-> {0, 1},
      history  |-> FALSE ]

-----------------------------------------------------------------------------
(* Types of synth.h *)

\* A SYNTH_IO_t value whose populated slots are `present`, all owned by
\* backend b.
IOTable(b, present) == [s \in Slots |-> IF s \in present THEN b ELSE NULL]

\* The zero-initialised static SYNTH_IO_t.
EmptyIO == [s \in Slots |-> NULL]

\* A SYNTH_Ctx_t value.
Ctx(rate, ch, vol, mute, init) ==
    [SampleRate |-> rate, Channels |-> ch, Volume |-> vol, Mute |-> mute,
     Initialized |-> init]

\* One invocation of a backend callback: the function called (its owner),
\* the slot it was taken from, its arguments and the value it returned.
Call(slot, a, res) == [b |-> SynthIO[slot], slot |-> slot, arg |-> a, res |-> res]

-----------------------------------------------------------------------------
Init ==
    /\ SynthIO = EmptyIO
    /\ SynthCtx = Ctx(0, 0, 0, 0, 0)
    /\ op = "none"
    /\ arg = <<>>
    /\ ret = SYNTH_STATUS_OK
    /\ out = <<>>
    /\ calls = <<>>
    /\ lastReg = [b |-> NULL, tbl |-> EmptyIO]
    /\ prevReg = NULL
    /\ initInvoked = {}
    /\ pc = [p \in Callers |-> "idle"]
    /\ loc = [p \in Callers |->
                [seen |-> 0, rate |-> 0, channels |-> 0, k |-> 0, cb |-> FALSE]]

-----------------------------------------------------------------------------
(* Pieces of the functions of synth.c *)

\* Mutant: only the populated slots of the new table are copied, the others
\* keep the previous registration.
RegisteredTable_Merge(old, new) ==
    [s \in Slots |-> IF new[s] # NULL THEN new[s] ELSE old[s]]

\* SynthIO = *pIO: structure assignment, every slot of the old table is
\* overwritten.
RegisteredTable(old, new) == new

\* Mutant: the result of the backend init is not checked.
InitFailed_Never(res) == FALSE

\* if (SynthIO.Init() != 0)
InitFailed(res) == res # 0

\* Mutant: a re-init keeps the volume and mute setting the context holds.
DefaultContext_KeepSettings(sample_rate, channels) ==
    Ctx(sample_rate, channels,
        IF SynthCtx.Initialized = 1 THEN SynthCtx.Volume ELSE SYNTH_DEFAULT_VOLUME,
        IF SynthCtx.Initialized = 1 THEN SynthCtx.Mute ELSE 0, 1)

\* The "Default context" block of SYNTH_Init.
DefaultContext(sample_rate, channels) ==
    Ctx(sample_rate, channels, SYNTH_DEFAULT_VOLUME, 0, 1)

\* Mutant: only the Initialized flag is cleared.
ZeroContext_FlagOnly == [SynthCtx EXCEPT !.Initialized = 0]

\* memset(&SynthCtx, 0, sizeof(SYNTH_Ctx_t))
ZeroContext == Ctx(0, 0, 0, 0, 0)

\* Mutant: the Initialized check of SYNTH_PlayBuffer is missing.
PlayBufferNotReady_NoCheck == FALSE

\* if (SynthCtx.Initialized == 0)
PlayBufferNotReady == SynthCtx.Initialized = 0

\* uint32_t size = length * sizeof(int16_t): the product is converted to
\* uint32_t, whatever the width of size_t.
TransmitSize(length) == ToU32(MulExact(length, SizeofInt16))

\* Mutant: the volume is stored as given.
ClampVolume_NoClamp(volume) == volume

\* if (volume > 100) volume = 100;
ClampVolume(volume) == IF volume > 100 THEN 100 ELSE volume

\* if (SynthIO.X) { SynthIO.X(a); }: the callback of `slot` is invoked when
\* the slot is populated, and its result is dropped.
Forward(slot, a, res) ==
    IF SynthIO[slot] # NULL THEN <<Call(slot, a, res)>> ELSE <<>>

\* A pointer to a SYNTH_IO_t of backend b, and the null pointer.
IOPtr(b, present) == [null |-> FALSE, b |-> b, tbl |-> IOTable(b, present)]

NullIOPtr == [null |-> TRUE, b |-> NULL, tbl |-> EmptyIO]

-----------------------------------------------------------------------------
(* The public functions *)

\* Mutant: a successful registration resets the context.
SYNTH_RegisterBusIO_ResetContext(pIO) ==
    /\ op' = "RegisterBusIO"
    /\ arg' = <<pIO.null, pIO.b>>
    /\ out' = <<>>
    /\ calls' = <<>>
    /\ IF pIO.null
         THEN /\ ret' = SYNTH_STATUS_ERROR
              /\ UNCHANGED <<SynthIO, SynthCtx, lastReg, prevReg>>
         ELSE /\ SynthIO' = RegisteredTable(SynthIO, pIO.tbl)
              /\ SynthCtx' = ZeroContext
              /\ ret' = SYNTH_STATUS_OK
              /\ lastReg' = [b |-> pIO.b, tbl |-> pIO.tbl]
              /\ prevReg' = lastReg.b

SYNTH_RegisterBusIO(pIO) ==
    /\ op' = "RegisterBusIO"
    /\ arg' = <<pIO.null, pIO.b>>
    /\ out' = <<>>
    /\ calls' = <<>>
    /\ IF pIO.null
         THEN /\ ret' = SYNTH_STATUS_ERROR
              /\ UNCHANGED <<SynthIO, lastReg, prevReg>>
         ELSE /\ SynthIO' = RegisteredTable(SynthIO, pIO.tbl)
              /\ ret' = SYNTH_STATUS_OK
              /\ lastReg' = [b |-> pIO.b, tbl |-> pIO.tbl]
              /\ prevReg' = lastReg.b
    /\ UNCHANGED SynthCtx

\* Mutant: the context is populated and the sample rate forwarded before the
\* Init slot is looked at.
SYNTH_Init_DefaultsFirst(sample_rate, channels, initRes, rateRes) ==
    /\ op' = "Init"
    /\ arg' = <<sample_rate, channels>>
    /\ out' = <<>>
    /\ SynthCtx' = DefaultContext(sample_rate, channels)
    /\ IF SynthIO.Init = NULL
         THEN /\ ret' = SYNTH_STATUS_ERROR
              /\ calls' = Forward("SetSampleRate", <<sample_rate>>, rateRes)
         ELSE /\ calls' = Forward("SetSampleRate", <<sample_rate>>, rateRes)
                            \o <<Call("Init", <<>>, initRes)>>
              /\ ret' = IF InitFailed(initRes) THEN SYNTH_STATUS_ERROR
                                               ELSE SYNTH_STATUS_OK
    /\ UNCHANGED <<SynthIO, lastReg, prevReg>>

SYNTH_Init(sample_rate, channels, initRes, rateRes) ==
    /\ op' = "Init"
    /\ arg' = <<sample_rate, channels>>
    /\ out' = <<>>
    /\ IF SynthIO.Init = NULL
         THEN /\ ret' = SYNTH_STATUS_ERROR
              /\ calls' = <<>>
              /\ UNCHANGED SynthCtx
         ELSE IF InitFailed(initRes)
           THEN /\ ret' = SYNTH_STATUS_ERROR
                /\ calls' = <<Call("Init", <<>>, initRes)>>
                /\ UNCHANGED SynthCtx
           ELSE /\ SynthCtx' = DefaultContext(sample_rate, channels)
                /\ calls' = <<Call("Init", <<>>, initRes)>>
                              \o Forward("SetSampleRate", <<sample_rate>>, rateRes)
                /\ ret' = SYNTH_STATUS_OK
    /\ UNCHANGED <<SynthIO, lastReg, prevReg>>

\* Mutant: SYNTH_DeInit also clears the registered table.
SYNTH_DeInit_Unregister(res) ==
    /\ op' = "DeInit"
    /\ arg' = <<>>
    /\ out' = <<>>
    /\ calls' = Forward("DeInit", <<>>, res)
    /\ SynthCtx' = ZeroContext
    /\ SynthIO' = EmptyIO
    /\ ret' = SYNTH_STATUS_OK
    /\ UNCHANGED <<lastReg, prevReg>>

SYNTH_DeInit(res) ==
    /\ op' = "DeInit"
    /\ arg' = <<>>
    /\ out' = <<>>
    /\ calls' = Forward("DeInit", <<>>, res)
    /\ SynthCtx' = ZeroContext
    /\ ret' = SYNTH_STATUS_OK
    /\ UNCHANGED <<SynthIO, lastReg, prevReg>>

\* Mutant: the result of transmit is mapped to OK or Error.
SYNTH_PlayBuffer_MapResult(length, res) ==
    /\ op' = "PlayBuffer"
    /\ arg' = <<length>>
    /\ out' = <<>>
    /\ IF PlayBufferNotReady \/ SynthIO.Transmit = NULL
         THEN /\ ret' = SYNTH_STATUS_ERROR
              /\ calls' = <<>>
         ELSE /\ calls' = <<Call("Transmit", <<TransmitSize(length)>>, res)>>
              /\ ret' = IF res = 0 THEN SYNTH_STATUS_OK ELSE SYNTH_STATUS_ERROR
    /\ UNCHANGED <<SynthIO, SynthCtx, lastReg, prevReg>>

\* The buffer pointer is only cast and passed on, never dereferenced.
SYNTH_PlayBuffer(length, res) ==
    /\ op' = "PlayBuffer"
    /\ arg' = <<length>>
    /\ out' = <<>>
    /\ IF PlayBufferNotReady
         THEN /\ ret' = SYNTH_STATUS_ERROR
              /\ calls' = <<>>
         ELSE IF SynthIO.Transmit = NULL
           THEN /\ ret' = SYNTH_STATUS_ERROR
                /\ calls' = <<>>
           ELSE /\ calls' = <<Call("Transmit", <<TransmitSize(length)>>, res)>>
                /\ ret' = res
    /\ UNCHANGED <<SynthIO, SynthCtx, lastReg, prevReg>>

\* Mutant: SYNTH_Stop is refused while the context is not initialised.
SYNTH_Stop_NotReady ==
    /\ op' = "Stop"
    /\ arg' = <<>>
    /\ out' = <<>>
    /\ calls' = <<>>
    /\ ret' = IF SynthCtx.Initialized = 0 THEN SYNTH_STATUS_ERROR
                                          ELSE SYNTH_STATUS_OK
    /\ UNCHANGED <<SynthIO, SynthCtx, lastReg, prevReg>>

SYNTH_Stop ==
    /\ op' = "Stop"
    /\ arg' = <<>>
    /\ out' = <<>>
    /\ calls' = <<>>
    /\ ret' = SYNTH_STATUS_OK
    /\ UNCHANGED <<SynthIO, SynthCtx, lastReg, prevReg>>

\* Mutant: the result of the backend SetSampleRate is checked, and a failure
\* makes the call fail with the context left as it was.
SYNTH_SetSampleRate_Checked(sample_rate, res) ==
    /\ op' = "SetSampleRate"
    /\ arg' = <<sample_rate>>
    /\ out' = <<>>
    /\ calls' = Forward("SetSampleRate", <<sample_rate>>, res)
    /\ IF SynthIO.SetSampleRate # NULL /\ res # 0
         THEN /\ ret' = SYNTH_STATUS_ERROR
              /\ UNCHANGED SynthCtx
         ELSE /\ SynthCtx' = [SynthCtx EXCEPT !.SampleRate = sample_rate]
              /\ ret' = SYNTH_STATUS_OK
    /\ UNCHANGED <<SynthIO, lastReg, prevReg>>

SYNTH_SetSampleRate(sample_rate, res) ==
    /\ op' = "SetSampleRate"
    /\ arg' = <<sample_rate>>
    /\ out' = <<>>
    /\ SynthCtx' = [SynthCtx EXCEPT !.SampleRate = sample_rate]
    /\ calls' = Forward("SetSampleRate", <<sample_rate>>, res)
    /\ ret' = SYNTH_STATUS_OK
    /\ UNCHANGED <<SynthIO, lastReg, prevReg>>

\* Mutant: SYNTH_GetSampleRate asks the backend when it offers GetSampleRate.
SYNTH_GetSampleRate_AskBackend(nonNull) ==
    /\ op' = "GetSampleRate"
    /\ arg' = <<nonNull>>
    /\ IF ~nonNull
         THEN /\ ret' = SYNTH_STATUS_ERROR
              /\ out' = <<>>
              /\ calls' = <<>>
         ELSE /\ out' = <<SynthCtx.SampleRate>>
              /\ calls' = Forward("GetSampleRate", <<>>, 0)
              /\ ret' = SYNTH_STATUS_OK
    /\ UNCHANGED <<SynthIO, SynthCtx, lastReg, prevReg>>

\* nonNull: whether the pointer sample_rate is non-null.
SYNTH_GetSampleRate(nonNull) ==
    /\ op' = "GetSampleRate"
    /\ arg' = <<nonNull>>
    /\ calls' = <<>>
    /\ IF ~nonNull
         THEN /\ ret' = SYNTH_STATUS_ERROR
              /\ out' = <<>>
         ELSE /\ out' = <<SynthCtx.SampleRate>>
              /\ ret' = SYNTH_STATUS_OK
    /\ UNCHANGED <<SynthIO, SynthCtx, lastReg, prevReg>>

SYNTH_SetVolume(volume) ==
    /\ op' = "SetVolume"
    /\ arg' = <<volume>>
    /\ out' = <<>>
    /\ calls' = <<>>
    /\ SynthCtx' = [SynthCtx EXCEPT !.Volume = ClampVolume(volume)]
    /\ ret' = SYNTH_STATUS_OK
    /\ UNCHANGED <<SynthIO, lastReg, prevReg>>

\* Mutant: SYNTH_GetVolume is refused while the context is not initialised.
SYNTH_GetVolume_NotReady(nonNull) ==
    /\ op' = "GetVolume"
    /\ arg' = <<nonNull>>
    /\ calls' = <<>>
    /\ IF ~nonNull \/ SynthCtx.Initialized = 0
         THEN /\ ret' = SYNTH_STATUS_ERROR
              /\ out' = <<>>
         ELSE /\ out' = <<SynthCtx.Volume>>
              /\ ret' = SYNTH_STATUS_OK
    /\ UNCHANGED <<SynthIO, SynthCtx, lastReg, prevReg>>

\* nonNull: whether the pointer volume is non-null.
SYNTH_GetVolume(nonNull) ==
    /\ op' = "GetVolume"
    /\ arg' = <<nonNull>>
    /\ calls' = <<>>
    /\ IF ~nonNull
         THEN /\ ret' = SYNTH_STATUS_ERROR
              /\ out' = <<>>
         ELSE /\ out' = <<SynthCtx.Volume>>
              /\ ret' = SYNTH_STATUS_OK
    /\ UNCHANGED <<SynthIO, SynthCtx, lastReg, prevReg>>

\* Mutant: the result of the backend Mute is returned to the caller.
SYNTH_Mute_Passthrough(enable, res) ==
    /\ op' = "Mute"
    /\ arg' = <<enable>>
    /\ out' = <<>>
    /\ SynthCtx' = [SynthCtx EXCEPT !.Mute = enable]
    /\ calls' = Forward("Mute", <<enable>>, res)
    /\ ret' = IF SynthIO.Mute # NULL THEN res ELSE SYNTH_STATUS_OK
    /\ UNCHANGED <<SynthIO, lastReg, prevReg>>

SYNTH_Mute(enable, res) ==
    /\ op' = "Mute"
    /\ arg' = <<enable>>
    /\ out' = <<>>
    /\ SynthCtx' = [SynthCtx EXCEPT !.Mute = enable]
    /\ calls' = Forward("Mute", <<enable>>, res)
    /\ ret' = SYNTH_STATUS_OK
    /\ UNCHANGED <<SynthIO, lastReg, prevReg>>

-----------------------------------------------------------------------------
(* One call of a public function by the single caller, its arguments and   *)
(* the results of the backend callbacks drawn from the input sets I.       *)

\* The backends whose Init callback the step invoked.
InitCallees(cs) == {cs[i].b : i \in {j \in DOMAIN cs : cs[j].slot = "Init"}}

\* What a call of the single caller leaves of the history and of the
\* variables of the concurrent callers: initInvoked is recorded when the
\* inputs ask for it.
History(I) ==
    /\ initInvoked' = IF I.history THEN initInvoked \cup InitCallees(calls')
                                   ELSE initInvoked
    /\ UNCHANGED <<pc, loc>>

Step(I) ==
    \/ SYNTH_RegisterBusIO(NullIOPtr) /\ History(I)
    \/ \E b \in I.backends, present \in I.shapes :
         SYNTH_RegisterBusIO(IOPtr(b, present)) /\ History(I)
    \/ \E r \in I.rates, c \in I.channels, initRes \in I.results,
          rateRes \in I.results :
         SYNTH_Init(r, c, initRes, rateRes) /\ History(I)
    \/ \E res \in I.results : SYNTH_DeInit(res) /\ History(I)
    \/ \E n \in I.lengths, res \in I.results :
         SYNTH_PlayBuffer(n, res) /\ History(I)
    \/ SYNTH_Stop /\ History(I)
    \/ \E r \in I.rates, res \in I.results :
         SYNTH_SetSampleRate(r, res) /\ History(I)
    \/ \E nonNull \in BOOLEAN : SYNTH_GetSampleRate(nonNull) /\ History(I)
    \/ \E v \in I.volumes : SYNTH_SetVolume(v) /\ History(I)
    \/ \E nonNull \in BOOLEAN : SYNTH_GetVolume(nonNull) /\ History(I)
    \/ \E e \in I.enables, res \in I.results : SYNTH_Mute(e, res) /\ History(I)

Next == Step(Inputs)

Spec == Init /\ [][Next]_vars

NextU8 == Step(InputsU8)

SpecU8 == Init /\ [][NextU8]_vars

\* Inputs of the specification that records which backends had their init
\* callback invoked.
InputsHist ==
    [ shapes   |-> {Slots, {"Transmit"}, {}},
      backends |-> Backends,
      rates    |-> {48000},
      channels |-> {2},
      volumes  |-> {0, 100},
      enables  |-> {0, 1},
      lengths  |-> {U32(0, 256)},
      results  |-> {0, 1},
      history  |-> TRUE ]

NextHist == Step(InputsHist)

SpecHist == Init /\ [][NextHist]_vars

-----------------------------------------------------------------------------
(* Two unsynchronised callers.  Every access to a field of SynthCtx and    *)
(* every invocation of a backend callback is one atomic step; the test of  *)
(* a slot of SynthIO belongs to the step that invokes the slot, and a      *)
(* registration is one step.  The stores of SYNTH_Init and of the memset   *)
(* of SYNTH_DeInit are made in the order of the fields.  op, arg, out and  *)
(* calls describe the last step (arg is the caller that made it), ret is   *)
(* the value of the last return.  The callers run SYNTH_RegisterBusIO,     *)
(* SYNTH_Init, SYNTH_DeInit and SYNTH_PlayBuffer.                          *)

\* The fields of SYNTH_Ctx_t in the order of their declaration, which is
\* also the order of the assignments of SYNTH_Init.
Fields == <<"SampleRate", "Channels", "Volume", "Mute", "Initialized">>

InputsConc ==
    [ shapes   |-> {Slots},
      backends |-> {1},
      rates    |-> {48000},
      channels |-> {2},
      lengths  |-> {U32(0, 256)},
      results  |-> {0, 1} ]

\* What a step of caller p records: the function, the caller, the callbacks.
StepOf(fn, p, cs) ==
    /\ op' = fn
    /\ arg' = <<p>>
    /\ out' = <<>>
    /\ calls' = cs

Conc_RegisterBusIO(p, pIO) ==
    /\ pc[p] = "idle"
    /\ SYNTH_RegisterBusIO(pIO)
    /\ UNCHANGED <<initInvoked, pc, loc>>

\* if (SynthIO.Init == NULL) ...; if (SynthIO.Init() != 0) ...
Init_Call(p, sample_rate, channels, initRes) ==
    /\ pc[p] = "idle"
    /\ IF SynthIO.Init = NULL
         THEN /\ StepOf("Init", p, <<>>)
              /\ ret' = SYNTH_STATUS_ERROR
              /\ UNCHANGED <<pc, loc>>
         ELSE /\ StepOf("Init", p, <<Call("Init", <<>>, initRes)>>)
              /\ IF InitFailed(initRes)
                   THEN /\ ret' = SYNTH_STATUS_ERROR
                        /\ UNCHANGED <<pc, loc>>
                   ELSE /\ pc' = [pc EXCEPT ![p] = "Init_Store"]
                        /\ loc' = [loc EXCEPT ![p].rate = sample_rate,
                                              ![p].channels = channels,
                                              ![p].k = 1]
                        /\ UNCHANGED ret
    /\ UNCHANGED <<SynthIO, SynthCtx, lastReg, prevReg, initInvoked>>

\* One assignment of the "Default context" block.
Init_Store(p) ==
    /\ pc[p] = "Init_Store"
    /\ StepOf("Init", p, <<>>)
    /\ SynthCtx' = [SynthCtx EXCEPT ![Fields[loc[p].k]] =
                      DefaultContext(loc[p].rate, loc[p].channels)[Fields[loc[p].k]]]
    /\ IF loc[p].k < Len(Fields)
         THEN /\ loc' = [loc EXCEPT ![p].k = @ + 1]
              /\ UNCHANGED pc
         ELSE /\ loc' = [loc EXCEPT ![p].k = 0]
              /\ pc' = [pc EXCEPT ![p] = "Init_Forward"]
    /\ UNCHANGED <<SynthIO, ret, lastReg, prevReg, initInvoked>>

\* if (SynthIO.SetSampleRate) { SynthIO.SetSampleRate(sample_rate); }
Init_Forward(p, rateRes) ==
    /\ pc[p] = "Init_Forward"
    /\ StepOf("Init", p, Forward("SetSampleRate", <<loc[p].rate>>, rateRes))
    /\ ret' = SYNTH_STATUS_OK
    /\ pc' = [pc EXCEPT ![p] = "idle"]
    /\ UNCHANGED <<SynthIO, SynthCtx, lastReg, prevReg, initInvoked, loc>>

\* if (SynthIO.DeInit) { SynthIO.DeInit(); }
DeInit_Call(p, res) ==
    /\ pc[p] = "idle"
    /\ StepOf("DeInit", p, Forward("DeInit", <<>>, res))
    /\ pc' = [pc EXCEPT ![p] = "DeInit_Store"]
    /\ loc' = [loc EXCEPT ![p].k = 1, ![p].cb = (SynthIO.DeInit # NULL)]
    /\ UNCHANGED <<SynthIO, SynthCtx, ret, lastReg, prevReg, initInvoked>>

\* The memset, one field at a time.
DeInit_Store(p) ==
    /\ pc[p] = "DeInit_Store"
    /\ StepOf("DeInit", p, <<>>)
    /\ SynthCtx' = [SynthCtx EXCEPT ![Fields[loc[p].k]] =
                      ZeroContext[Fields[loc[p].k]]]
    /\ IF loc[p].k < Len(Fields)
         THEN /\ loc' = [loc EXCEPT ![p].k = @ + 1]
              /\ UNCHANGED <<pc, ret>>
         ELSE /\ loc' = [loc EXCEPT ![p].k = 0]
              /\ pc' = [pc EXCEPT ![p] = "idle"]
              /\ ret' = SYNTH_STATUS_OK
    /\ UNCHANGED <<SynthIO, lastReg, prevReg, initInvoked>>

\* if (SynthCtx.Initialized == 0): the read of the flag, kept in loc[p].seen.
PlayBuffer_Check(p) ==
    /\ pc[p] = "idle"
    /\ StepOf("PlayBuffer", p, <<>>)
    /\ loc' = [loc EXCEPT ![p].seen = SynthCtx.Initialized]
    /\ IF PlayBufferNotReady
         THEN /\ ret' = SYNTH_STATUS_ERROR
              /\ UNCHANGED pc
         ELSE /\ pc' = [pc EXCEPT ![p] = "PlayBuffer_Transmit"]
              /\ UNCHANGED ret
    /\ UNCHANGED <<SynthIO, SynthCtx, lastReg, prevReg, initInvoked>>

\* if (SynthIO.Transmit == NULL) ...; return SynthIO.Transmit(..., size);
PlayBuffer_Transmit(p, length, res) ==
    /\ pc[p] = "PlayBuffer_Transmit"
    /\ IF SynthIO.Transmit = NULL
         THEN /\ StepOf("PlayBuffer", p, <<>>)
              /\ ret' = SYNTH_STATUS_ERROR
         ELSE /\ StepOf("PlayBuffer", p,
                        <<Call("Transmit", <<TransmitSize(length)>>, res)>>)
              /\ ret' = res
    /\ pc' = [pc EXCEPT ![p] = "idle"]
    /\ UNCHANGED <<SynthIO, SynthCtx, lastReg, prevReg, initInvoked, loc>>

StepConc(I) ==
    \/ \E p \in Callers, b \in I.backends, present \in I.shapes :
         Conc_RegisterBusIO(p, IOPtr(b, present))
    \/ \E p \in Callers, r \in I.rates, c \in I.channels, res \in I.results :
         Init_Call(p, r, c, res)
    \/ \E p \in Callers : Init_Store(p)
    \/ \E p \in Callers, res \in I.results : Init_Forward(p, res)
    \/ \E p \in Callers, res \in I.results : DeInit_Call(p, res)
    \/ \E p \in Callers : DeInit_Store(p)
    \/ \E p \in Callers : PlayBuffer_Check(p)
    \/ \E p \in Callers, n \in I.lengths, res \in I.results :
         PlayBuffer_Transmit(p, n, res)

NextConc == StepConc(InputsConc)

SpecConc == Init /\ [][NextConc]_vars

-----------------------------------------------------------------------------
(* Helpers of the properties *)

\* Whether the call sequence cs holds an invocation of the callback `slot`.
HasCall(cs, slot) == \E i \in DOMAIN cs : cs[i].slot = slot

Min(a, b) == IF a < b THEN a ELSE b

\* The functions whose refusal while Uninitialized C2 claims.
GatedOps ==
    {"DeInit", "PlayBuffer", "Stop", "SetSampleRate", "GetSampleRate",
     "SetVolume", "GetVolume", "Mute"}

-----------------------------------------------------------------------------
(* C1 *)

\* C1: in every reachable state, whatever the sequence of calls and the
\* uint8_t volume arguments, the Volume field of the context is in [0,100].
C1_VolumeInRange == SynthCtx.Volume \in 0 .. 100

\* A volume above 100 was given to SYNTH_SetVolume and stored as 100.
C1_Witness ==
    /\ op = "SetVolume"
    /\ arg[1] > 100
    /\ SynthCtx.Volume = 100

-----------------------------------------------------------------------------
(* C2 *)

\* C2 as stated: while Initialized = 0, none of DeInit, PlayBuffer, Stop,
\* SetSampleRate, GetSampleRate, SetVolume, GetVolume and Mute changes a
\* context field or invokes a backend callback.
C2_AllGated ==
    [][(SynthCtx.Initialized = 0 /\ op' \in GatedOps)
         => (SynthCtx' = SynthCtx /\ calls' = <<>>)]_vars

\* C2 as amended: only SYNTH_PlayBuffer is gated by the flag.  While
\* Initialized = 0 it returns Error, changes no context field and invokes no
\* callback; Stop, GetSampleRate and GetVolume change no context field and
\* invoke no callback in any state.
C2_OnlyPlayBufferGated ==
    [][/\ (SynthCtx.Initialized = 0 /\ op' = "PlayBuffer")
            => (ret' = SYNTH_STATUS_ERROR /\ SynthCtx' = SynthCtx /\ calls' = <<>>)
       /\ op' \in {"Stop", "GetSampleRate", "GetVolume"}
            => (SynthCtx' = SynthCtx /\ calls' = <<>>)]_vars

\* SYNTH_PlayBuffer was refused with a transmit callback registered, in an
\* Uninitialized context whose volume an ungated SYNTH_SetVolume has set.
C2_Witness ==
    /\ op = "PlayBuffer"
    /\ SynthCtx.Initialized = 0
    /\ SynthCtx.Volume # 0
    /\ SynthIO.Transmit # NULL
    /\ ret = SYNTH_STATUS_ERROR
    /\ calls = <<>>

-----------------------------------------------------------------------------
(* C3 *)

\* C3: SYNTH_PlayBuffer called while Initialized = 0 returns Error and does
\* not invoke transmit; every transmit invocation is made by a call that
\* starts and ends with Initialized = 1.
C3_TransmitOnlyWhenInitialized ==
    [][/\ (op' = "PlayBuffer" /\ SynthCtx.Initialized = 0)
            => (ret' = SYNTH_STATUS_ERROR /\ ~HasCall(calls', "Transmit"))
       /\ HasCall(calls', "Transmit")
            => (SynthCtx.Initialized = 1 /\ SynthCtx'.Initialized = 1)]_vars

\* SYNTH_PlayBuffer was refused in the zeroed context (before any init or
\* after a deinit) although a transmit callback is registered.
C3_Witness ==
    /\ op = "PlayBuffer"
    /\ SynthCtx = Ctx(0, 0, 0, 0, 0)
    /\ SynthIO.Transmit # NULL
    /\ ret = SYNTH_STATUS_ERROR
    /\ ~HasCall(calls, "Transmit")

-----------------------------------------------------------------------------
(* C4 *)

\* C4: when the backend init callback returns non-zero, SYNTH_Init returns
\* Error, leaves every context field as it was and does not invoke the
\* backend SetSampleRate; a SYNTH_GetSampleRate that follows returns the
\* sample rate the context holds, which is the one from before the call.
C4_FailedInitChangesNothing ==
    [][/\ (op' = "Init" /\ calls' # <<>> /\ calls'[1].res # 0)
            => /\ ret' = SYNTH_STATUS_ERROR
               /\ SynthCtx' = SynthCtx
               /\ ~HasCall(calls', "SetSampleRate")
       /\ (/\ op = "Init" /\ calls # <<>> /\ calls[1].res # 0
           /\ op' = "GetSampleRate" /\ arg'[1])
            => (ret' = SYNTH_STATUS_OK /\ out' = <<SynthCtx.SampleRate>>)]_vars

\* A re-init failed in a Ready context: the backend init was invoked and
\* returned non-zero, the populated SetSampleRate slot was not invoked and
\* the context is still Ready.
C4_Witness ==
    /\ op = "Init"
    /\ Len(calls) = 1
    /\ calls[1].slot = "Init"
    /\ calls[1].res # 0
    /\ ret = SYNTH_STATUS_ERROR
    /\ SynthIO.SetSampleRate # NULL
    /\ SynthCtx.Initialized = 1
    /\ SynthCtx.SampleRate # arg[1]

-----------------------------------------------------------------------------
(* C5 *)

\* C5: every backend callback a function invokes is the callback the last
\* registered table holds in that slot; a slot that is null in the last
\* registered table is never invoked, whatever earlier tables held there.
C5_OnlyLastRegistered ==
    \A i \in DOMAIN calls :
        /\ calls[i].b = lastReg.b
        /\ lastReg.tbl[calls[i].slot] # NULL

\* Backend 1 then backend 2 registered, and a later call invoked a callback
\* of backend 2.
C5_Witness ==
    /\ prevReg = 1
    /\ lastReg.b = 2
    /\ calls # <<>>
    /\ calls[1].b = 2

-----------------------------------------------------------------------------
(* C6 *)

\* C6: every SYNTH_DeInit returns OK and leaves the context all-zero,
\* whatever the backend deinit callback returns and whether it is present;
\* a SYNTH_DeInit that follows a SYNTH_DeInit leaves the context as it is.
C6_DeInitIdempotent ==
    [][/\ op' = "DeInit"
            => /\ ret' = SYNTH_STATUS_OK
               /\ SynthCtx'.SampleRate = 0
               /\ SynthCtx'.Channels = 0
               /\ SynthCtx'.Volume = 0
               /\ SynthCtx'.Mute = 0
               /\ SynthCtx'.Initialized = 0
       /\ (op = "DeInit" /\ op' = "DeInit") => SynthCtx' = SynthCtx]_vars

\* SYNTH_DeInit returned OK and zeroed the context although the backend
\* deinit callback reported a failure.
C6_Witness ==
    /\ op = "DeInit"
    /\ calls # <<>>
    /\ calls[1].res # 0
    /\ ret = SYNTH_STATUS_OK
    /\ SynthCtx = Ctx(0, 0, 0, 0, 0)

-----------------------------------------------------------------------------
(* C7 *)

\* C7: for every uint8_t v and in every state, SYNTH_SetVolume(v) returns OK
\* and a SYNTH_GetVolume with a non-null output that follows it returns OK
\* and yields min(v, 100).
C7_SetGetVolume ==
    [][/\ op' = "SetVolume" => ret' = SYNTH_STATUS_OK
       /\ (op = "SetVolume" /\ op' = "GetVolume" /\ arg'[1])
            => (ret' = SYNTH_STATUS_OK /\ out' = <<Min(arg[1], 100)>>)]_vars

\* SYNTH_GetVolume yielded 100 in an Uninitialized context: the value a
\* SYNTH_SetVolume stored there.
C7_Witness ==
    /\ op = "GetVolume"
    /\ arg[1]
    /\ ret = SYNTH_STATUS_OK
    /\ out = <<100>>
    /\ SynthCtx.Initialized = 0

-----------------------------------------------------------------------------
(* C8 *)

\* C8: every transmit invocation of SYNTH_PlayBuffer(buffer, N) is given the
\* byte size N * 2, the mathematical product, for every N of the uint32_t
\* range.
C8_ExactByteSize ==
    (op = "PlayBuffer" /\ HasCall(calls, "Transmit"))
        => Widen(calls[1].arg[1]) = MulExact(arg[1], 2)

-----------------------------------------------------------------------------
(* C9 *)

\* C9 as stated: whatever the backend callbacks return, every function
\* returns OK or Error.
C9_NeverBusyOrTimeout == ret \in {SYNTH_STATUS_OK, SYNTH_STATUS_ERROR}

\* C9 as amended: every function other than SYNTH_PlayBuffer returns OK or
\* Error whatever the backend callbacks return; SYNTH_PlayBuffer returns
\* Error when it does not invoke transmit and otherwise exactly the value
\* transmit returned, Busy and Timeout included.
C9_OnlyTransmitResultPassesThrough ==
    /\ op # "PlayBuffer" => ret \in {SYNTH_STATUS_OK, SYNTH_STATUS_ERROR}
    /\ op = "PlayBuffer"
         => IF HasCall(calls, "Transmit")
              THEN Len(calls) = 1 /\ ret = calls[1].res
              ELSE ret = SYNTH_STATUS_ERROR

\* The transmit callback returned Busy and SYNTH_PlayBuffer returned it.
C9_Witness ==
    /\ op = "PlayBuffer"
    /\ HasCall(calls, "Transmit")
    /\ calls[1].res = SYNTH_STATUS_BUSY
    /\ ret = SYNTH_STATUS_BUSY

-----------------------------------------------------------------------------
(* C10 *)

\* C10: SYNTH_DeInit, SYNTH_Mute and SYNTH_SetSampleRate return OK and apply
\* their context update whether the backend callback is absent, succeeds or
\* fails; a SYNTH_Init whose backend init succeeded returns OK with the
\* context populated whatever the backend SetSampleRate returns.
C10_FireAndForget ==
    /\ op = "DeInit"
         => (ret = SYNTH_STATUS_OK /\ SynthCtx = Ctx(0, 0, 0, 0, 0))
    /\ op = "Mute"
         => (ret = SYNTH_STATUS_OK /\ SynthCtx.Mute = arg[1])
    /\ op = "SetSampleRate"
         => (ret = SYNTH_STATUS_OK /\ SynthCtx.SampleRate = arg[1])
    /\ (op = "Init" /\ HasCall(calls, "SetSampleRate"))
         => /\ ret = SYNTH_STATUS_OK
            /\ SynthCtx = Ctx(arg[1], arg[2], SYNTH_DEFAULT_VOLUME, 0, 1)

\* SYNTH_Init returned OK with the context populated although the backend
\* SetSampleRate it forwarded to reported a failure.
C10_Witness ==
    /\ op = "Init"
    /\ Len(calls) = 2
    /\ calls[2].slot = "SetSampleRate"
    /\ calls[2].res # 0
    /\ ret = SYNTH_STATUS_OK
    /\ SynthCtx.Initialized = 1

-----------------------------------------------------------------------------
(* C11 *)

\* C11: when the backend init callback returns 0, SYNTH_Init(rate, channels)
\* returns OK and the context is exactly SampleRate = rate, Channels =
\* channels, Volume = 75, Mute = 0, Initialized = 1; the backend init is
\* invoked exactly once, first, and the backend SetSampleRate exactly once
\* with rate after it when that slot is populated, and not otherwise.
C11_SuccessfulInit ==
    (op = "Init" /\ HasCall(calls, "Init") /\ calls[1].res = 0)
        => /\ ret = SYNTH_STATUS_OK
           /\ SynthCtx.SampleRate = arg[1]
           /\ SynthCtx.Channels = arg[2]
           /\ SynthCtx.Volume = 75
           /\ SynthCtx.Mute = 0
           /\ SynthCtx.Initialized = 1
           /\ calls[1].slot = "Init"
           /\ IF SynthIO.SetSampleRate # NULL
                THEN /\ Len(calls) = 2
                     /\ calls[2].slot = "SetSampleRate"
                     /\ calls[2].arg = <<arg[1]>>
                ELSE Len(calls) = 1

\* A successful SYNTH_Init that forwarded the rate to the backend.
C11_Witness ==
    /\ op = "Init"
    /\ ret = SYNTH_STATUS_OK
    /\ Len(calls) = 2
    /\ calls[1].slot = "Init"
    /\ calls[2].slot = "SetSampleRate"
    /\ calls[2].arg = <<SynthCtx.SampleRate>>
    /\ SynthCtx.Volume = 75

-----------------------------------------------------------------------------
(* C12 *)

\* C12: SYNTH_Init called with a null Init slot (nothing registered yet, or a
\* table without init) returns Error, changes no context field and invokes
\* no backend callback.
C12_InitWithoutBackendInit ==
    [][(op' = "Init" /\ SynthIO.Init = NULL)
         => /\ ret' = SYNTH_STATUS_ERROR
            /\ SynthCtx' = SynthCtx
            /\ calls' = <<>>]_vars

\* SYNTH_Init was refused for a registered table that has no Init but has a
\* SetSampleRate callback, which was not invoked.
C12_Witness ==
    /\ op = "Init"
    /\ SynthIO.Init = NULL
    /\ SynthIO.SetSampleRate # NULL
    /\ ret = SYNTH_STATUS_ERROR
    /\ calls = <<>>

-----------------------------------------------------------------------------
(* C13 *)

\* C13: Initialized starts at 0; it goes from 0 to 1 only in a SYNTH_Init
\* step whose backend init returned 0, and from 1 to 0 only in a
\* SYNTH_DeInit step; no other call changes it.
C13_InitializedLifecycle ==
    /\ SynthCtx.Initialized = 0
    /\ [][/\ SynthCtx'.Initialized \in {0, 1}
          /\ (SynthCtx.Initialized = 0 /\ SynthCtx'.Initialized = 1)
               => /\ op' = "Init"
                  /\ HasCall(calls', "Init")
                  /\ calls'[1].slot = "Init"
                  /\ calls'[1].res = 0
          /\ (SynthCtx.Initialized = 1 /\ SynthCtx'.Initialized = 0)
               => op' = "DeInit"]_vars

\* The context became Ready and stayed Ready through a SYNTH_PlayBuffer
\* whose transmit failed.
C13_Witness ==
    /\ op = "PlayBuffer"
    /\ HasCall(calls, "Transmit")
    /\ ret # SYNTH_STATUS_OK
    /\ SynthCtx.Initialized = 1

-----------------------------------------------------------------------------
(* C14 *)

\* C14: SYNTH_GetSampleRate and SYNTH_GetVolume leave every context field
\* unchanged and invoke no backend callback; with a null output pointer they
\* return Error and store nothing, with a non-null one they return OK and
\* store the context field, in every state.
C14_Getters ==
    [][/\ op' \in {"GetSampleRate", "GetVolume"}
            => /\ SynthCtx' = SynthCtx
               /\ calls' = <<>>
               /\ IF arg'[1]
                    THEN ret' = SYNTH_STATUS_OK
                    ELSE ret' = SYNTH_STATUS_ERROR /\ out' = <<>>
       /\ (op' = "GetSampleRate" /\ arg'[1]) => out' = <<SynthCtx.SampleRate>>
       /\ (op' = "GetVolume" /\ arg'[1]) => out' = <<SynthCtx.Volume>>]_vars

\* SYNTH_GetVolume was given a null pointer in a Ready context and returned
\* Error without storing anything.
C14_Witness ==
    /\ op = "GetVolume"
    /\ ~arg[1]
    /\ ret = SYNTH_STATUS_ERROR
    /\ out = <<>>
    /\ SynthCtx.Initialized = 1

-----------------------------------------------------------------------------
(* C15 *)

\* C15: SYNTH_Stop returns OK in every state, changes no context field and
\* no slot of the registered table, and invokes no backend callback.
C15_StopIsNoOp ==
    [][op' = "Stop"
         => /\ ret' = SYNTH_STATUS_OK
            /\ SynthCtx' = SynthCtx
            /\ SynthIO' = SynthIO
            /\ calls' = <<>>]_vars

\* SYNTH_Stop returned OK in the Uninitialized context with no backend
\* registered.
C15_Witness ==
    /\ op = "Stop"
    /\ ret = SYNTH_STATUS_OK
    /\ SynthCtx.Initialized = 0
    /\ SynthIO = EmptyIO
    /\ lastReg.b = NULL

-----------------------------------------------------------------------------
(* C16 *)

\* C16: SYNTH_PlayBuffer called with Initialized = 1 leaves every context
\* field unchanged; with a transmit callback registered it invokes transmit
\* exactly once and returns exactly the value transmit returned; with a null
\* Transmit slot it returns Error and invokes nothing.
C16_PlayBufferPassthrough ==
    [][(op' = "PlayBuffer" /\ SynthCtx.Initialized = 1)
         => /\ SynthCtx' = SynthCtx
            /\ IF SynthIO.Transmit # NULL
                 THEN /\ Len(calls') = 1
                      /\ calls'[1].slot = "Transmit"
                      /\ ret' = calls'[1].res
                 ELSE /\ ret' = SYNTH_STATUS_ERROR
                      /\ calls' = <<>>]_vars

\* Transmit returned Timeout: SYNTH_PlayBuffer invoked it once, returned
\* Timeout and the context is still Ready.
C16_Witness ==
    /\ op = "PlayBuffer"
    /\ Len(calls) = 1
    /\ calls[1].slot = "Transmit"
    /\ calls[1].res = SYNTH_STATUS_TIMEOUT
    /\ ret = SYNTH_STATUS_TIMEOUT
    /\ SynthCtx.Initialized = 1

-----------------------------------------------------------------------------
(* C17 *)

\* C17: SYNTH_SetSampleRate(r) returns OK in every state, stores r in the
\* context and changes no other field, and invokes the backend SetSampleRate
\* exactly once with r when the slot is populated and nothing otherwise; a
\* SYNTH_GetSampleRate that follows yields r; the backend GetSampleRate is
\* never invoked.
C17_SetGetSampleRate ==
    [][/\ op' = "SetSampleRate"
            => /\ ret' = SYNTH_STATUS_OK
               /\ SynthCtx' = [SynthCtx EXCEPT !.SampleRate = arg'[1]]
               /\ IF SynthIO.SetSampleRate # NULL
                    THEN /\ Len(calls') = 1
                         /\ calls'[1].slot = "SetSampleRate"
                         /\ calls'[1].arg = arg'
                    ELSE calls' = <<>>
       /\ (op = "SetSampleRate" /\ op' = "GetSampleRate" /\ arg'[1])
            => (ret' = SYNTH_STATUS_OK /\ out' = <<arg[1]>>)
       /\ ~HasCall(calls', "GetSampleRate")]_vars

\* SYNTH_SetSampleRate stored the rate and forwarded it to the backend in a
\* context that is not initialised.
C17_Witness ==
    /\ op = "SetSampleRate"
    /\ SynthCtx.Initialized = 0
    /\ SynthCtx.SampleRate = arg[1]
    /\ Len(calls) = 1
    /\ calls[1].arg = arg
    /\ ret = SYNTH_STATUS_OK

-----------------------------------------------------------------------------
(* C19 *)

\* C19: the registered table changes only in a SYNTH_RegisterBusIO step with
\* a non-null table; SYNTH_RegisterBusIO(NULL) returns Error and keeps the
\* table; SYNTH_DeInit keeps the table, so a SYNTH_Init that follows it and
\* whose backend init returns 0 succeeds.
C19_TableChangedOnlyByRegister ==
    [][/\ SynthIO' # SynthIO => (op' = "RegisterBusIO" /\ ~arg'[1])
       /\ (op' = "RegisterBusIO" /\ arg'[1])
            => (ret' = SYNTH_STATUS_ERROR /\ SynthIO' = SynthIO)
       /\ (op = "DeInit" /\ op' = "Init" /\ SynthIO.Init # NULL
             /\ HasCall(calls', "Init") /\ calls'[1].res = 0)
            => (ret' = SYNTH_STATUS_OK /\ SynthCtx'.Initialized = 1)]_vars

\* After a SYNTH_DeInit that invoked the backend deinit, the table still
\* holds the Init and DeInit callbacks.
C19_Witness ==
    /\ op = "DeInit"
    /\ HasCall(calls, "DeInit")
    /\ SynthCtx.Initialized = 0
    /\ SynthIO.Init # NULL
    /\ SynthIO = lastReg.tbl

-----------------------------------------------------------------------------
(* C18 *)

\* C18: SYNTH_RegisterBusIO changes no context field; a SYNTH_PlayBuffer
\* that follows a successful registration made in a Ready context invokes
\* the transmit of the table just registered and returns its result.
C18_RegisterKeepsContext ==
    [][/\ op' = "RegisterBusIO" => SynthCtx' = SynthCtx
       /\ (/\ op = "RegisterBusIO" /\ ret = SYNTH_STATUS_OK
           /\ SynthCtx.Initialized = 1
           /\ op' = "PlayBuffer" /\ lastReg.tbl.Transmit # NULL)
            => /\ Len(calls') = 1
               /\ calls'[1].slot = "Transmit"
               /\ calls'[1].b = lastReg.b
               /\ ret' = calls'[1].res]_vars

\* The context was initialised through backend 1, backend 2 was registered
\* afterwards, and SYNTH_PlayBuffer invoked the transmit of backend 2, whose
\* init callback has never been invoked.
C18_Witness ==
    /\ op = "PlayBuffer"
    /\ SynthCtx.Initialized = 1
    /\ Len(calls) = 1
    /\ calls[1].slot = "Transmit"
    /\ calls[1].b = 2
    /\ ret = calls[1].res
    /\ initInvoked = {1}

-----------------------------------------------------------------------------
(* C20 *)

\* C20: with two unsynchronised callers, a transmit invocation is still made
\* only by a caller whose own check read Initialized = 1, but no longer only
\* while Initialized = 1: C20_Witness is reachable.
C20_TransmitAfterOwnCheck ==
    (op = "PlayBuffer" /\ HasCall(calls, "Transmit"))
        => loc[arg[1]].seen = 1

\* Caller p invoked transmit after its check read Initialized = 1, in a
\* context that a SYNTH_DeInit of the other caller, which invoked the
\* backend deinit callback, has zeroed in the meantime.
C20_Witness ==
    \E p \in Callers, q \in Callers :
        /\ p # q
        /\ op = "PlayBuffer"
        /\ arg = <<p>>
        /\ HasCall(calls, "Transmit")
        /\ loc[p].seen = 1
        /\ SynthCtx = Ctx(0, 0, 0, 0, 0)
        /\ pc[q] = "idle"
        /\ loc[q].cb

=============================================================================
